---- MODULE Spec2Model ----
(***************************************************************************)
(* A model of lightning_pose/utils/fiftyone.py: the tag validation         *)
(* helpers, the per-frame keypoint builder, and the image-mode and         *)
(* video-mode dataset builders (FiftyOneImagePlotter,                      *)
(* FiftyOneKeypointVideoPlotter).                                          *)
(*                                                                         *)
(* Three specifications share the variables:                               *)
(*   SpecTags  check_unique_tags / get_image_tags on drawn tag columns     *)
(*   SpecKp    keypoint inference and build_single_frame_keypoint_list     *)
(*   Spec      construction and create_dataset of both plotters            *)
(***************************************************************************)
EXTENDS Integers, Sequences, FiniteSets, TLC

VARIABLES
    \* ---- SpecTags: the pure tag helpers
    tg_pc,              \* "in" | "checked" | "tagged"
    tg_df,              \* the prediction DataFrame handed in: a sequence of columns
    tg_flag,            \* result of check_unique_tags on the raw last column
    tg_out,             \* outcome of get_image_tags
    \* ---- SpecKp: the keypoint builder
    kp_pc,              \* "in" | "inferred" | "built"
    kp_in,              \* the drawn inputs (table, cfg, explicit list, frame_idx)
    kp_names,           \* self.keypoints_to_plot after __init__
    kp_out,             \* the list build_single_frame_keypoint_list returns
    \* ---- Spec: the plotters
    mode,               \* "image" | "video"
    cfg,                \* cfg.eval: declared sources and display names
    pc,                 \* position in __init__ / create_dataset
    err,                \* the exception that ended the run ("" while none)
    log,                \* I/O and construction events in program order
    ground_truth_df,    \* self.ground_truth_df
    keypoints_to_plot,  \* self.keypoints_to_plot
    model_preds_dict,   \* self.model_preds_dict (insertion-ordered dict)
    data_tags,          \* self.data_tags
    gt_keypoints_list,  \* local gt_keypoints_list
    pred_keypoints_dict,\* local pred_keypoints_dict (insertion-ordered dict)
    samples,            \* local samples / video_sample
    datasets,           \* the fiftyone database: dataset name -> samples
    result              \* what create_dataset returned

tgVars == <<tg_pc, tg_df, tg_flag, tg_out>>
kpVars == <<kp_pc, kp_in, kp_names, kp_out>>
bdVars == <<mode, cfg, pc, err, log, ground_truth_df, keypoints_to_plot,
            model_preds_dict, data_tags, gt_keypoints_list,
            pred_keypoints_dict, samples, datasets, result>>
vars == <<tgVars, kpVars, bdVars>>

----------------------------------------------------------------------------
(* Bounds *)

\* longest tag column drawn in SpecTags
MaxTagLen == 4
\* most keypoint columns of a drawn table in SpecKp
MaxKeypoints == 2
\* most declared models in Spec
MaxModels == 3
\* most rows of a table in Spec
MaxRows == 3
\* most rows of a drawn table in SpecKp
MaxKpRows == 2

----------------------------------------------------------------------------
(* Python str ordering of the strings the model uses (sorted, np.unique,   *)
(* and the sorted levels of a pandas MultiIndex compare strings).          *)

StrRank(s) ==
    CASE s = "0"          -> 1
      [] s = "0.0"        -> 2
      [] s = "arm"        -> 3
      [] s = "bodyparts"  -> 4
      [] s = "ear"        -> 5
      [] s = "nose"       -> 6
      [] s = "other"      -> 7
      [] s = "tail"       -> 8
      [] s = "test"       -> 9
      [] s = "train"      -> 10
      [] s = "unused"     -> 11
      [] s = "validation" -> 12

SeqToSet(s) == {s[i] : i \in DOMAIN s}

RECURSIVE InsertSorted(_, _)
InsertSorted(x, s) ==
    IF s = <<>> THEN <<x>>
    ELSE IF StrRank(x) <= StrRank(Head(s)) THEN <<x>> \o s
    ELSE <<Head(s)>> \o InsertSorted(x, Tail(s))

\* sorted(list)
RECURSIVE Sorted(_)
Sorted(s) == IF s = <<>> THEN <<>> ELSE InsertSorted(Head(s), Sorted(Tail(s)))

\* the sorted sequence of the elements of a set of strings
RECURSIVE SortedOfSet(_)
SortedOfSet(S) ==
    IF S = {} THEN <<>>
    ELSE LET m == CHOOSE x \in S : \A y \in S : StrRank(x) <= StrRank(y)
         IN  <<m>> \o SortedOfSet(S \ {m})

----------------------------------------------------------------------------
(* Tag helpers *)

check_lists_equal(list_1, list_2) ==
    Len(list_1) = Len(list_2) /\ Sorted(list_1) = Sorted(list_2)

\* mutant: the values sorted but not de-duplicated
NpUniqueKeepDup(data_pt_tags) == Sorted(data_pt_tags)

\* list(np.unique(data_pt_tags)): the distinct values, sorted
NpUnique(data_pt_tags) == SortedOfSet(SeqToSet(data_pt_tags))

cond_list == <<"test", "train", "validation">>
cond_list_with_unused_images == <<"test", "train", "validation", "unused">>

check_unique_tags(data_pt_tags) ==
    LET uniques == NpUnique(data_pt_tags)
    IN  \/ check_lists_equal(uniques, cond_list)
        \/ check_lists_equal(uniques, cond_list_with_unused_images)

\* pred_df.iloc[:, -1]
LastColumn(pred_df) == pred_df[Len(pred_df)]

\* mutant: every spelling of zero is replaced
SeriesReplaceAnyZero(col, old, new) ==
    [i \in DOMAIN col |-> IF col[i] \in {"0.0", "0"} THEN new ELSE col[i]]

\* Series.replace("0.0", "unused"): a new Series, exact matches only
SeriesReplace(col, old, new) ==
    [i \in DOMAIN col |-> IF col[i] = old THEN new ELSE col[i]]

\* get_image_tags: the substituted column, or the failed assertion
get_image_tags(pred_df) ==
    LET data_pt_tags == SeriesReplace(LastColumn(pred_df), "0.0", "unused")
    IN  IF check_unique_tags(data_pt_tags)
        THEN [ok |-> TRUE, tags |-> data_pt_tags, err |-> ""]
        ELSE [ok |-> FALSE, tags |-> <<>>, err |-> "AssertionError"]

----------------------------------------------------------------------------
(* DataFrames with a two-level column header.                              *)
(*   columns  the <<outer, inner>> header pairs in file order              *)
(*   nrows    df.shape[0]                                                  *)
(*   data     header pair -> the column's values, one per row              *)
(*   src      which file the table was read from (0: the ground truth)     *)
(* Floats are exact fractions <<numerator, denominator>> in lowest terms.  *)

RECURSIVE Gcd(_, _)
Gcd(a, b) == IF b = 0 THEN a ELSE Gcd(b, a % b)

\* Python's a / b on non-negative numbers, b > 0
TrueDiv(a, b) == LET g == Gcd(a, b) IN <<a \div g, b \div g>>

One == <<1, 1>>

ROW_LABEL == "bodyparts"

\* df[kp_name]: the inner names below one outer name
SubColumns(df, kp_name) ==
    {df.columns[i][2] : i \in {j \in DOMAIN df.columns : df.columns[j][1] = kp_name}}

\* df.columns.levels[0]: the distinct outer names, sorted
Levels0(df) == SortedOfSet({df.columns[i][1] : i \in DOMAIN df.columns})

\* the distinct outer names in the order the file lists them
RECURSIVE SchemaOrder(_)
SchemaOrder(cols) ==
    IF cols = <<>> THEN <<>>
    ELSE LET rest == SchemaOrder(SubSeq(cols, 1, Len(cols) - 1))
             last == cols[Len(cols)][1]
         IN  IF last \in SeqToSet(rest) THEN rest ELSE Append(rest, last)

\* list(self.ground_truth_df.columns.levels[0][1:])
InferKeypoints(df) == Tail(Levels0(df))

\* mutant: likelihood is never looked up
ConfidenceAlwaysOne(df, kp_name, frame_idx) == One

\* lines 122-125
Confidence(df, kp_name, frame_idx) ==
    IF "likelihood" \in SubColumns(df, kp_name)
    THEN df.data[<<kp_name, "likelihood">>][frame_idx + 1]
    ELSE One

\* lines 130-141: one fo.Keypoint
Keypoint(df, kp_name, frame_idx, img_width, img_height) ==
    [ label      |-> kp_name,
      points     |-> << << TrueDiv(df.data[<<kp_name, "x">>][frame_idx + 1], img_width),
                           TrueDiv(df.data[<<kp_name, "y">>][frame_idx + 1], img_height) >> >>,
      confidence |-> Confidence(df, kp_name, frame_idx) ]

RECURSIVE build_single_frame_keypoint_list(_, _, _, _, _)
build_single_frame_keypoint_list(names, df, frame_idx, img_width, img_height) ==
    IF names = <<>> THEN <<>>
    ELSE LET kp_name == Head(names)
             rest == build_single_frame_keypoint_list(
                         Tail(names), df, frame_idx, img_width, img_height)
         IN  IF kp_name = ROW_LABEL
             THEN rest
             ELSE <<Keypoint(df, kp_name, frame_idx, img_width, img_height)>> \o rest

\* get_keypoints_per_image: one fo.Keypoints per row
get_keypoints_per_image(names, df, img_width, img_height) ==
    [i \in 1..df.nrows |->
        build_single_frame_keypoint_list(names, df, i - 1, img_width, img_height)]

----------------------------------------------------------------------------
(* Drawn inputs *)

\* SeqsUpTo(S, n): the sequences over S of length 0..n
SeqsUpTo(S, n) == UNION {[1..k -> S] : k \in 0..n}

\* the sequences over S without repetition, of length lo..hi
DistinctSeqs(S, lo, hi) ==
    {q \in UNION {[1..k -> S] : k \in lo..hi} :
        \A i, j \in DOMAIN q : i # j => q[i] # q[j]}

Reverse(q) == [i \in DOMAIN q |-> q[Len(q) + 1 - i]]

TagAlphabet == {"test", "train", "validation", "unused", "0.0", "0", "other"}

\* the keypoint names drawn tables may use; "arm" sorts before the row-label name
KpUniverse == <<"nose", "arm", "ear", "tail">>
KpNames == {KpUniverse[i] : i \in 1..(MaxKeypoints + 1)}

\* raw likelihood values
Likelihoods == {<<1, 2>>, <<9, 10>>}
\* raw (x, y) readings of a row
RawXY == {<<100, 50>>, <<0, 100>>, <<50, 0>>}
\* cfg.data.image_orig_dims (width, height)
ImageDims == {<<200, 100>>, <<100, 200>>}

\* The table a csv file holds: the row-label column, then x, y (and likelihood)
\* per keypoint in the order kps; row r of keypoint number j reads
\* rows[r].xy shifted by 10 * (j - 1), so that no two keypoints read alike.
MakeTable(src, kps, hasLik, rows) ==
    LET inner == IF hasLik THEN <<"x", "y", "likelihood">> ELSE <<"x", "y">>
        w == Len(inner)
        cols == <<<<ROW_LABEL, "coords">>>> \o
                [i \in 1..(Len(kps) * w) |->
                    <<kps[((i - 1) \div w) + 1], inner[((i - 1) % w) + 1]>>]
        idx(n) == CHOOSE j \in DOMAIN kps : kps[j] = n
        val(c, r) ==
            IF c[1] = ROW_LABEL THEN r
            ELSE IF c[2] = "x" THEN rows[r].xy[1] + 10 * (idx(c[1]) - 1)
            ELSE IF c[2] = "y" THEN rows[r].xy[2] + 10 * (idx(c[1]) - 1)
            ELSE rows[r].lik
    IN  [ columns |-> cols,
          nrows   |-> Len(rows),
          data    |-> [c \in SeqToSet(cols) |-> [r \in 1..Len(rows) |-> val(c, r)]],
          tags    |-> <<>>,
          src     |-> src ]

RowReadings == [xy : RawXY, lik : Likelihoods]

NoTable == [columns |-> <<>>, nrows |-> 0, data |-> <<>>, tags |-> <<>>, src |-> -1]

----------------------------------------------------------------------------
(* SpecTags: check_unique_tags and get_image_tags on every drawn column *)

TgIdle == /\ tg_pc = "idle" /\ tg_df = <<>> /\ tg_flag = FALSE
          /\ tg_out = [ok |-> FALSE, tags |-> <<>>, err |-> ""]

TgInit ==
    /\ tg_pc = "in"
    /\ \E tags \in SeqsUpTo(TagAlphabet, MaxTagLen) :
          tg_df = << [i \in DOMAIN tags |-> i], tags >>
    /\ tg_flag = FALSE
    /\ tg_out = [ok |-> FALSE, tags |-> <<>>, err |-> ""]

\* check_unique_tags(list(pred_df.iloc[:, -1]))
TgCheck ==
    /\ tg_pc = "in"
    /\ tg_flag' = check_unique_tags(LastColumn(tg_df))
    /\ tg_pc' = "checked"
    /\ UNCHANGED <<tg_df, tg_out>>

\* get_image_tags(pred_df)
TgGetImageTags ==
    /\ tg_pc = "checked"
    /\ tg_out' = get_image_tags(tg_df)
    /\ tg_pc' = "tagged"
    /\ UNCHANGED <<tg_df, tg_flag>>

----------------------------------------------------------------------------
(* SpecKp: keypoint inference at construction and the per-frame builder *)

KpIdle == /\ kp_pc = "idle" /\ kp_in = <<>> /\ kp_names = <<>> /\ kp_out = <<>>

KpInit ==
    /\ kp_pc = "in"
    /\ \E kps \in DistinctSeqs(KpNames, 1, MaxKeypoints),
          hasLik \in BOOLEAN,
          rows \in UNION {[1..n -> RowReadings] : n \in 1..MaxKpRows},
          dims \in ImageDims,
          given \in BOOLEAN :
          kp_in = [ df       |-> MakeTable(0, kps, hasLik, rows),
                    width    |-> dims[1],
                    height   |-> dims[2],
                    given    |-> given,
                    explicit |-> IF given THEN Reverse(kps) \o <<ROW_LABEL>> ELSE <<>> ]
    /\ kp_names = <<>>
    /\ kp_out = <<>>

\* FiftyOneKeypointBase.__init__, lines 57 and 66-70
KpConstruct ==
    /\ kp_pc = "in"
    /\ kp_names' = IF kp_in.given THEN kp_in.explicit ELSE InferKeypoints(kp_in.df)
    /\ kp_pc' = "inferred"
    /\ UNCHANGED <<kp_in, kp_out>>

\* build_single_frame_keypoint_list(df, frame_idx)
KpBuild ==
    /\ kp_pc = "inferred"
    /\ \E frame_idx \in 0..(kp_in.df.nrows - 1) :
          kp_out' = [ frame_idx |-> frame_idx,
                      list |-> build_single_frame_keypoint_list(
                                   kp_names, kp_in.df, frame_idx,
                                   kp_in.width, kp_in.height) ]
    /\ kp_pc' = "built"
    /\ UNCHANGED <<kp_in, kp_names>>

----------------------------------------------------------------------------
(* Insertion-ordered dicts: sequences of [key, val]; assigning to a key    *)
(* that is present replaces its value in place.                            *)

DictKeys(d) == [i \in DOMAIN d |-> d[i].key]
DictHas(d, k) == \E i \in DOMAIN d : d[i].key = k
DictGet(d, k) == d[CHOOSE i \in DOMAIN d : d[i].key = k].val

\* mutant: a new key goes to the front
DictSetPrepend(d, k, v) ==
    IF DictHas(d, k)
    THEN [i \in DOMAIN d |-> IF d[i].key = k THEN [key |-> k, val |-> v] ELSE d[i]]
    ELSE <<[key |-> k, val |-> v]>> \o d

\* d[k] = v
DictSet(d, k, v) ==
    IF DictHas(d, k)
    THEN [i \in DOMAIN d |-> IF d[i].key = k THEN [key |-> k, val |-> v] ELSE d[i]]
    ELSE Append(d, [key |-> k, val |-> v])

----------------------------------------------------------------------------
(* Spec: the inputs of a build *)

ModelNameSet == {"a", "b"}
SynthNames == <<"model_0", "model_1", "model_2", "model_3", "model_4">>

\* the ground-truth header of every build: row labels, then nose and ear
BuildKps == <<"nose", "ear">>
BuildDims == <<200, 100>>
\* the raw values a tag column may hold in a build
BuildTagAlphabet == {"train", "test", "validation", "0.0"}

\* row r of the table of source src reads (10 * src + r, r), likelihood 1/2
BuildRows(src, n) ==
    [r \in 1..n |-> [xy |-> <<10 * src + r, r>>, lik |-> <<1, 2>>]]

GtTable(n) == MakeTable(0, BuildKps, FALSE, BuildRows(0, n))
PredTable(src, n) == MakeTable(src, BuildKps, TRUE, BuildRows(src, n))

DATASET_NAME == "ds"
VIDEO_DATASET_NAME == "ds_videos"
VIDEO == "video.mp4"

NoResult == [returned |-> FALSE, name |-> "", samples |-> <<>>]

BdIdle ==
    /\ mode = "none" /\ cfg = <<>> /\ pc = "idle" /\ err = "" /\ log = <<>>
    /\ ground_truth_df = NoTable /\ keypoints_to_plot = <<>>
    /\ model_preds_dict = <<>> /\ data_tags = <<>> /\ gt_keypoints_list = <<>>
    /\ pred_keypoints_dict = <<>> /\ samples = <<>> /\ datasets = <<>>
    /\ result = NoResult

BdInit ==
    /\ mode \in {"image", "video"}
    /\ \E n \in 0..MaxModels, given \in BOOLEAN :
          \E names \in (IF given THEN SeqsUpTo(ModelNameSet, MaxModels) ELSE {<<>>}) :
             cfg = [n |-> n, names_given |-> given, names |-> names]
    /\ pc = "new" /\ err = "" /\ log = <<>>
    /\ ground_truth_df = NoTable /\ keypoints_to_plot = <<>>
    /\ model_preds_dict = <<>> /\ data_tags = <<>> /\ gt_keypoints_list = <<>>
    /\ pred_keypoints_dict = <<>> /\ samples = <<>> /\ datasets = <<>>
    /\ result = NoResult

\* the exception leaves the method: nothing is returned
Raise(e) == /\ err' = e /\ pc' = "failed"

----------------------------------------------------------------------------
(* Construction *)

\* FiftyOneKeypointBase.__init__: read the ground-truth csv, infer the keypoints
BaseInit ==
    /\ pc = "new"
    /\ \E n \in 0..MaxRows :
          IF n = 0
          THEN \* the csv file is not there
               /\ Raise("FileNotFoundError")
               /\ UNCHANGED <<log, ground_truth_df, keypoints_to_plot>>
          ELSE /\ ground_truth_df' = GtTable(n)
               /\ keypoints_to_plot' = InferKeypoints(GtTable(n))
               /\ log' = Append(log, "read_csv:gt")
               /\ pc' = IF mode = "video" THEN "check_inputs" ELSE "ready"
               /\ err' = err
    /\ UNCHANGED <<mode, cfg, model_preds_dict, data_tags, gt_keypoints_list,
                   pred_keypoints_dict, samples, datasets, result>>

\* the isfile calls of check_inputs, up to and including the first failure
RECURSIVE CheckedFiles(_, _, _)
CheckedFiles(i, n, missing) ==
    IF i > n THEN <<>>
    ELSE IF i \in missing THEN <<"isfile:pred">>
    ELSE <<"isfile:pred">> \o CheckedFiles(i + 1, n, missing)

\* mutant: the video file is not checked
CheckInputsNoVideo ==
    /\ pc = "check_inputs"
    /\ \E missing \in SUBSET (1..cfg.n) :
          /\ log' = log \o CheckedFiles(1, cfg.n, missing)
          /\ IF missing # {} THEN Raise("MissingFile")
                             ELSE pc' = "ready" /\ err' = err
    /\ UNCHANGED <<mode, cfg, ground_truth_df, keypoints_to_plot, model_preds_dict,
                   data_tags, gt_keypoints_list, pred_keypoints_dict, samples,
                   datasets, result>>

\* FiftyOneKeypointVideoPlotter.__init__ after super().__init__: check_inputs
CheckInputs ==
    /\ pc = "check_inputs"
    /\ \E missing \in SUBSET (1..cfg.n), video_ok \in BOOLEAN :
          IF missing # {}
          THEN /\ log' = log \o CheckedFiles(1, cfg.n, missing)
               /\ Raise("MissingFile")
          ELSE /\ log' = log \o CheckedFiles(1, cfg.n, missing) \o <<"isfile:video">>
               /\ IF video_ok THEN pc' = "ready" /\ err' = err
                              ELSE Raise("MissingFile")
    /\ UNCHANGED <<mode, cfg, ground_truth_df, keypoints_to_plot, model_preds_dict,
                   data_tags, gt_keypoints_list, pred_keypoints_dict, samples,
                   datasets, result>>

----------------------------------------------------------------------------
(* Loading the prediction tables *)

\* FiftyOneKeypointBase.load_model_predictions, the loop of lines 107-111.
\* outcome[i] is what predictions.csv of model i holds: 0 when the file is
\* missing, otherwise its row count. The right-hand side (read_csv) is
\* evaluated before the subscript self.model_names[model_idx].
RECURSIVE ImgLoadLoop(_, _, _, _, _)
ImgLoadLoop(i, c, outcome, d, lg) ==
    IF i > c.n THEN [dict |-> d, log |-> lg, err |-> ""]
    ELSE IF outcome[i] = 0
         THEN [dict |-> d, log |-> lg, err |-> "MissingPredictionFile"]
    ELSE LET lg2 == Append(lg, "read_csv:pred")
         IN  IF ~c.names_given THEN [dict |-> d, log |-> lg2, err |-> "TypeError"]
             ELSE IF i > Len(c.names)
                  THEN [dict |-> d, log |-> lg2, err |-> "IndexError"]
             ELSE ImgLoadLoop(i + 1, c, outcome,
                              DictSet(d, c.names[i], PredTable(i, outcome[i])), lg2)

\* mutant: the count of explicit names is not checked
VideoModelNamesUnchecked(c) ==
    [ names |-> IF c.names_given THEN c.names ELSE [i \in 1..c.n |-> SynthNames[i]],
      ok    |-> TRUE ]

\* FiftyOneKeypointVideoPlotter.model_names
VideoModelNames(c) ==
    LET model_display_names ==
            IF c.names_given THEN c.names ELSE [i \in 1..c.n |-> SynthNames[i]]
    IN  [ names |-> model_display_names,
          ok    |-> Len(model_display_names) = c.n ]

Min(a, b) == IF a <= b THEN a ELSE b

\* FiftyOneKeypointVideoPlotter.load_model_predictions, the loop over
\* zip(self.model_names, self.pred_csv_files)
RECURSIVE VidLoadLoop(_, _, _, _, _)
VidLoadLoop(i, names, c, rows, d) ==
    IF i > Min(Len(names), c.n) THEN d
    ELSE VidLoadLoop(i + 1, names, c, rows, DictSet(d, names[i], PredTable(i, rows[i])))

\* line 203: self.load_model_predictions() of the image plotter
ImgLoadModelPredictions ==
    /\ pc = "ready" /\ mode = "image"
    /\ \E dirs_ok \in BOOLEAN :
          IF ~dirs_ok /\ cfg.n > 0
          THEN \* get_model_abs_paths: assert os.path.isdir(mod_path)
               /\ Raise("MissingPredictionFile")
               /\ log' = Append(log, "isdir:model")
               /\ UNCHANGED model_preds_dict
          ELSE \E outcome \in [1..cfg.n -> 0..MaxRows] :
               LET r == ImgLoadLoop(1, cfg, outcome, <<>>,
                                    log \o [i \in 1..cfg.n |-> "isdir:model"])
               IN  /\ model_preds_dict' = r.dict
                   /\ log' = r.log
                   /\ IF r.err = "" THEN pc' = "img_tags" /\ err' = err
                                    ELSE Raise(r.err)
    /\ UNCHANGED <<mode, cfg, ground_truth_df, keypoints_to_plot, data_tags,
                   gt_keypoints_list, pred_keypoints_dict, samples, datasets, result>>

\* line 281: self.load_model_predictions() of the video plotter
VidLoadModelPredictions ==
    /\ pc = "ready" /\ mode = "video"
    /\ LET mn == VideoModelNames(cfg)
       IN  IF ~mn.ok
           THEN /\ Raise("ModelNameCountMismatch")
                /\ UNCHANGED <<model_preds_dict, log>>
           ELSE \E rows \in [1..cfg.n -> 1..MaxRows] :
                /\ model_preds_dict' = VidLoadLoop(1, mn.names, cfg, rows, <<>>)
                /\ log' = log \o [i \in 1..Min(Len(mn.names), cfg.n) |-> "read_csv:pred"]
                /\ pc' = "pred_keypoints"
                /\ err' = err
    /\ UNCHANGED <<mode, cfg, ground_truth_df, keypoints_to_plot, data_tags,
                   gt_keypoints_list, pred_keypoints_dict, samples, datasets, result>>

----------------------------------------------------------------------------
(* Image mode: tags and ground-truth keypoints *)

\* the DataFrame get_image_tags sees: the trailing column is the tag column
WithTags(df, raw) == [df EXCEPT !.tags = raw]
AsColumns(df) == << df.data[<<ROW_LABEL, "coords">>], df.tags >>

\* line 205. The tag column of the table is drawn here, where it is first read.
ImgGetImageTags ==
    /\ pc = "img_tags"
    /\ IF ~cfg.names_given THEN Raise("TypeError") /\ UNCHANGED <<model_preds_dict, data_tags>>
       ELSE IF cfg.names = <<>>
            THEN Raise("IndexError") /\ UNCHANGED <<model_preds_dict, data_tags>>
       ELSE IF ~DictHas(model_preds_dict, cfg.names[1])
            THEN Raise("KeyError") /\ UNCHANGED <<model_preds_dict, data_tags>>
       ELSE LET df == DictGet(model_preds_dict, cfg.names[1])
            IN  \E raw \in [1..df.nrows -> BuildTagAlphabet] :
                LET t == get_image_tags(AsColumns(WithTags(df, raw)))
                IN  /\ model_preds_dict' =
                           DictSet(model_preds_dict, cfg.names[1], WithTags(df, raw))
                    /\ IF t.ok
                       THEN data_tags' = t.tags /\ pc' = "gt_keypoints" /\ err' = err
                       ELSE data_tags' = data_tags /\ Raise("InvalidTagSet")
    /\ UNCHANGED <<mode, cfg, log, ground_truth_df, keypoints_to_plot,
                   gt_keypoints_list, pred_keypoints_dict, samples, datasets, result>>

\* line 207: get_gt_keypoints_list
ImgGtKeypoints ==
    /\ pc = "gt_keypoints"
    /\ gt_keypoints_list' = get_keypoints_per_image(
                                keypoints_to_plot, ground_truth_df,
                                BuildDims[1], BuildDims[2])
    /\ log' = Append(log, "keypoints:gt")
    /\ pc' = "pred_keypoints"
    /\ UNCHANGED <<mode, cfg, err, ground_truth_df, keypoints_to_plot, model_preds_dict,
                   data_tags, pred_keypoints_dict, samples, datasets, result>>

----------------------------------------------------------------------------
(* Both modes: the prediction keypoints *)

RECURSIVE get_pred_keypoints_dict(_, _, _)
get_pred_keypoints_dict(d, names, acc) ==
    IF d = <<>> THEN acc
    ELSE get_pred_keypoints_dict(
             Tail(d), names,
             DictSet(acc, Head(d).key,
                     get_keypoints_per_image(names, Head(d).val,
                                             BuildDims[1], BuildDims[2])))

\* lines 209 and 283
GetPredKeypointsDict ==
    /\ pc = "pred_keypoints"
    /\ pred_keypoints_dict' =
           get_pred_keypoints_dict(model_preds_dict, keypoints_to_plot, <<>>)
    /\ log' = log \o [i \in DOMAIN model_preds_dict |-> "keypoints:pred"]
    /\ pc' = IF mode = "image" THEN "img_samples" ELSE "vid_dataset"
    /\ UNCHANGED <<mode, cfg, err, ground_truth_df, keypoints_to_plot, model_preds_dict,
                   data_tags, gt_keypoints_list, samples, datasets, result>>

----------------------------------------------------------------------------
(* Image mode: samples and the dataset *)

GT_FIELD == <<"ground_truth", "">>
\* model_field_name + "_preds"
PredsField(model_field_name) == <<model_field_name, "_preds">>

\* mutant: the path is joined to the video directory
AbsPathVideoDir(im_path) == <<"video_dir", im_path>>

\* os.path.join(self.data_dir, im_path)
AbsPath(im_path) == <<"data_dir", im_path>>

\* mutant: only the first model's field is set
PredFieldsFirstOnly(pk, idx, acc) ==
    IF pk = <<>> THEN [ok |-> TRUE, fields |-> acc]
    ELSE IF idx + 1 > Len(Head(pk).val) THEN [ok |-> FALSE, fields |-> acc]
    ELSE [ok |-> TRUE,
          fields |-> Append(acc, [key |-> <<Head(pk).key, "_preds">>,
                                  val |-> Head(pk).val[idx + 1]])]

\* lines 216-217 for one image or frame: None when some model has no row idx
RECURSIVE PredFields(_, _, _)
PredFields(pk, idx, acc) ==
    IF pk = <<>> THEN [ok |-> TRUE, fields |-> acc]
    ELSE IF idx + 1 > Len(Head(pk).val) THEN [ok |-> FALSE, fields |-> acc]
    ELSE PredFields(Tail(pk), idx,
                    DictSet(acc, PredsField(Head(pk).key), Head(pk).val[idx + 1]))

\* the loop of lines 210-219 from image img_idx on
RECURSIVE ImgSampleLoop(_, _, _, _, _)
ImgSampleLoop(img_idx, paths, tags, gt, pk) ==
    IF img_idx + 1 > Len(paths) THEN [samples |-> <<>>, err |-> ""]
    ELSE IF img_idx + 1 > Len(tags) THEN [samples |-> <<>>, err |-> "KeyError"]
    ELSE LET f == PredFields(pk, img_idx,
                             <<[key |-> GT_FIELD, val |-> gt[img_idx + 1]]>>)
         IN  IF ~f.ok THEN [samples |-> <<>>, err |-> "IndexError"]
             ELSE LET sample == [ filepath |-> paths[img_idx + 1],
                                  tags     |-> <<tags[img_idx + 1]>>,
                                  fields   |-> f.fields,
                                  frames   |-> <<>> ]
                      rest == ImgSampleLoop(img_idx + 1, paths, tags, gt, pk)
                  IN  [samples |-> <<sample>> \o rest.samples, err |-> rest.err]

\* FiftyOneImagePlotter.image_paths without its isfile assertions
RelativeList(df) == df.data[<<ROW_LABEL, "coords">>]
AbsoluteList(df) == [i \in 1..df.nrows |-> AbsPath(RelativeList(df)[i])]

SetMin(S) == CHOOSE x \in S : \A y \in S : x <= y

\* mutant: each path is checked inside the loop, when its Sample is built
ImgSamplesCheckInLoop ==
    /\ pc = "img_samples"
    /\ log' = Append(log, "isfile:image")
    /\ \E missing \in SUBSET (1..ground_truth_df.nrows) :
          LET r == ImgSampleLoop(0, AbsoluteList(ground_truth_df), data_tags,
                                 gt_keypoints_list, pred_keypoints_dict)
          IN  IF missing # {} /\ SetMin(missing) <= Len(r.samples) + 1
              THEN /\ samples' = SubSeq(r.samples, 1, SetMin(missing) - 1)
                   /\ Raise("MissingImageFile")
              ELSE /\ samples' = r.samples
                   /\ IF r.err = "" THEN pc' = "img_dataset" /\ err' = err
                                    ELSE Raise(r.err)
    /\ UNCHANGED <<mode, cfg, ground_truth_df, keypoints_to_plot, model_preds_dict,
                   data_tags, gt_keypoints_list, pred_keypoints_dict, datasets, result>>

\* lines 210-219: image_paths is evaluated, then one Sample per image
ImgSamples ==
    /\ pc = "img_samples"
    /\ log' = Append(log, "isfile:image")
    /\ \E missing \in SUBSET (1..ground_truth_df.nrows) :
          IF missing # {}
          THEN Raise("MissingImageFile") /\ UNCHANGED samples
          ELSE LET r == ImgSampleLoop(0, AbsoluteList(ground_truth_df), data_tags,
                                      gt_keypoints_list, pred_keypoints_dict)
               IN  /\ samples' = r.samples
                   /\ IF r.err = "" THEN pc' = "img_dataset" /\ err' = err
                                    ELSE Raise(r.err)
    /\ UNCHANGED <<mode, cfg, ground_truth_df, keypoints_to_plot, model_preds_dict,
                   data_tags, gt_keypoints_list, pred_keypoints_dict, datasets, result>>

\* lines 221-223
ImgDataset ==
    /\ pc = "img_dataset"
    /\ datasets' = DictSet(datasets, DATASET_NAME, samples)
    /\ result' = [returned |-> TRUE, name |-> DATASET_NAME, samples |-> samples]
    /\ log' = log \o <<"Dataset", "add_samples">>
    /\ pc' = "done"
    /\ UNCHANGED <<mode, cfg, err, ground_truth_df, keypoints_to_plot, model_preds_dict,
                   data_tags, gt_keypoints_list, pred_keypoints_dict, samples>>

----------------------------------------------------------------------------
(* Video mode: the dataset, the frames, the sample *)

\* line 285: the dataset exists in the database from here on
VidDataset ==
    /\ pc = "vid_dataset"
    /\ datasets' = DictSet(datasets, VIDEO_DATASET_NAME, <<>>)
    /\ log' = Append(log, "Dataset")
    /\ pc' = "vid_frames"
    /\ UNCHANGED <<mode, cfg, err, ground_truth_df, keypoints_to_plot, model_preds_dict,
                   data_tags, gt_keypoints_list, pred_keypoints_dict, samples, result>>

\* the loop of lines 291-295 from frame frame_idx on; frames are keyed frame_idx + 1
RECURSIVE VidFrameLoop(_, _, _)
VidFrameLoop(frame_idx, n, pk) ==
    IF frame_idx + 1 > n THEN [frames |-> <<>>, err |-> ""]
    ELSE LET f == PredFields(pk, frame_idx, <<>>)
         IN  IF ~f.ok THEN [frames |-> <<>>, err |-> "IndexError"]
             ELSE LET rest == VidFrameLoop(frame_idx + 1, n, pk)
                  IN  [frames |-> <<f.fields>> \o rest.frames, err |-> rest.err]

\* lines 289-295
VidFrames ==
    /\ pc = "vid_frames"
    /\ IF pred_keypoints_dict = <<>>
       THEN \* list(pred_keypoints_dict.keys())[0]
            Raise("IndexError") /\ UNCHANGED samples
       ELSE LET r == VidFrameLoop(0, Len(pred_keypoints_dict[1].val), pred_keypoints_dict)
            IN  IF r.err # ""
                THEN Raise(r.err) /\ UNCHANGED samples
                ELSE /\ samples' = << [ filepath |-> VIDEO, tags |-> <<>>,
                                        fields |-> <<>>, frames |-> r.frames ] >>
                     /\ pc' = "vid_add" /\ err' = err
    /\ UNCHANGED <<mode, cfg, log, ground_truth_df, keypoints_to_plot, model_preds_dict,
                   data_tags, gt_keypoints_list, pred_keypoints_dict, datasets, result>>

\* lines 297-298
VidAddSample ==
    /\ pc = "vid_add"
    /\ datasets' = DictSet(datasets, VIDEO_DATASET_NAME, samples)
    /\ result' = [returned |-> TRUE, name |-> VIDEO_DATASET_NAME, samples |-> samples]
    /\ log' = Append(log, "add_sample")
    /\ pc' = "done"
    /\ UNCHANGED <<mode, cfg, err, ground_truth_df, keypoints_to_plot, model_preds_dict,
                   data_tags, gt_keypoints_list, pred_keypoints_dict, samples>>

----------------------------------------------------------------------------
(* Specifications *)

Init == BdInit /\ TgIdle /\ KpIdle

Next ==
    \/ BaseInit /\ UNCHANGED <<tgVars, kpVars>>
    \/ CheckInputs /\ UNCHANGED <<tgVars, kpVars>>
    \/ ImgLoadModelPredictions /\ UNCHANGED <<tgVars, kpVars>>
    \/ VidLoadModelPredictions /\ UNCHANGED <<tgVars, kpVars>>
    \/ ImgGetImageTags /\ UNCHANGED <<tgVars, kpVars>>
    \/ ImgGtKeypoints /\ UNCHANGED <<tgVars, kpVars>>
    \/ GetPredKeypointsDict /\ UNCHANGED <<tgVars, kpVars>>
    \/ ImgSamples /\ UNCHANGED <<tgVars, kpVars>>
    \/ ImgDataset /\ UNCHANGED <<tgVars, kpVars>>
    \/ VidDataset /\ UNCHANGED <<tgVars, kpVars>>
    \/ VidFrames /\ UNCHANGED <<tgVars, kpVars>>
    \/ VidAddSample /\ UNCHANGED <<tgVars, kpVars>>

Spec == Init /\ [][Next]_vars

InitTags == TgInit /\ KpIdle /\ BdIdle

NextTags ==
    \/ TgCheck /\ UNCHANGED <<kpVars, bdVars>>
    \/ TgGetImageTags /\ UNCHANGED <<kpVars, bdVars>>

SpecTags == InitTags /\ [][NextTags]_vars

InitKp == KpInit /\ TgIdle /\ BdIdle

NextKp ==
    \/ KpConstruct /\ UNCHANGED <<tgVars, bdVars>>
    \/ KpBuild /\ UNCHANGED <<tgVars, bdVars>>

SpecKp == InitKp /\ [][NextKp]_vars

----------------------------------------------------------------------------
(* Claims on the tag helpers (SpecTags) *)

AllowedTagSets == { {"test", "train", "validation"},
                    {"test", "train", "validation", "unused"} }

RawTags == LastColumn(tg_df)

\* C1: check_unique_tags returns true exactly when the set of distinct values
\* of the sequence is {test, train, validation} or {test, train, validation,
\* unused}, whatever the order and multiplicity; an empty sequence gives false.
C1_UniqueTagsIff ==
    tg_pc \in {"checked", "tagged"} =>
        /\ tg_flag <=> (SeqToSet(RawTags) \in AllowedTagSets)
        /\ RawTags = <<>> => ~tg_flag

\* an accepted column that repeats a value and is not in sorted order
C1_Witness ==
    /\ tg_pc = "checked" /\ tg_flag
    /\ Len(RawTags) > Cardinality(SeqToSet(RawTags))
    /\ RawTags[1] = "validation"

\* the column get_image_tags is expected to return
Substituted(raw) == [i \in DOMAIN raw |-> IF raw[i] = "0.0" THEN "unused" ELSE raw[i]]

\* C7: get_image_tags replaces every "0.0" of the last column by "unused",
\* leaves the other rows as they are, returns that column (same length and
\* order) when its distinct values form an allowed set and fails otherwise,
\* and leaves the table it was given untouched.
C7_GetImageTags ==
    /\ [](tg_pc = "tagged" =>
            IF SeqToSet(Substituted(RawTags)) \in AllowedTagSets
            THEN /\ tg_out.ok
                 /\ tg_out.tags = Substituted(RawTags)
                 /\ Len(tg_out.tags) = Len(RawTags)
            ELSE ~tg_out.ok /\ tg_out.err = "AssertionError")
    /\ [][tg_df' = tg_df]_vars

\* a column with a zero row that validates once the zero reads "unused"
C7_Witness ==
    /\ tg_pc = "tagged" /\ tg_out.ok
    /\ \E i \in DOMAIN RawTags : RawTags[i] = "0.0" /\ tg_out.tags[i] = "unused"
    /\ \E i \in DOMAIN RawTags : RawTags[i] = "train" /\ tg_out.tags[i] = "train"

----------------------------------------------------------------------------
(* Claims on the keypoint builder (SpecKp) *)

Requested == SelectSeq(kp_names, LAMBDA n : n # ROW_LABEL)

\* p is the value of a / b
IsQuotient(p, a, b) == p[2] > 0 /\ p[1] * b = a * p[2]

\* C8: for every requested name but the reserved one, in order, the list
\* holds a Keypoint labelled with the name, at (x / width, y / height) of the
\* row, with the row's likelihood as confidence when the table has that
\* sub-field and 1.0 otherwise; width 200, height 100, raw (100, 50) gives
\* (0.5, 0.5).
C8_KeypointOfRow ==
    kp_pc = "built" =>
        LET df  == kp_in.df
            r   == kp_out.frame_idx + 1
            out == kp_out.list
        IN  /\ Len(out) = Len(Requested)
            /\ \A j \in DOMAIN out :
                 LET n == Requested[j]
                     x == df.data[<<n, "x">>][r]
                     y == df.data[<<n, "y">>][r]
                 IN  /\ out[j].label = n
                     /\ Len(out[j].points) = 1
                     /\ IsQuotient(out[j].points[1][1], x, kp_in.width)
                     /\ IsQuotient(out[j].points[1][2], y, kp_in.height)
                     /\ out[j].confidence =
                            IF <<n, "likelihood">> \in DOMAIN df.data
                            THEN df.data[<<n, "likelihood">>][r]
                            ELSE <<1, 1>>
                     /\ (kp_in.width = 200 /\ kp_in.height = 100 /\ x = 100 /\ y = 50)
                            => out[j].points[1] = << <<1, 2>>, <<1, 2>> >>

\* a ground-truth table (no likelihood), second row, raw (100, 50) on 200 x 100
C8_Witness ==
    /\ kp_pc = "built"
    /\ kp_out.frame_idx = 1
    /\ \A c \in DOMAIN kp_in.df.data : c[2] # "likelihood"
    /\ \E j \in DOMAIN kp_out.list :
          /\ kp_out.list[j].points = << << <<1, 2>>, <<1, 2>> >> >>
          /\ kp_out.list[j].confidence = <<1, 1>>
    /\ Len(kp_out.list) = 2

\* C10: with no explicit list, the inferred list holds every distinct outer
\* name of the ground-truth header but the reserved one, nothing else, in
\* header order, whatever the names.
C10_InferredInSchemaOrder ==
    (kp_pc \in {"inferred", "built"} /\ ~kp_in.given) =>
        kp_names = SelectSeq(SchemaOrder(kp_in.df.columns), LAMBDA n : n # ROW_LABEL)

----------------------------------------------------------------------------
(* Claims on the builds (Spec) *)

Positions(e) == {i \in DOMAIN log : log[i] = e}
PositionsIn(E) == {i \in DOMAIN log : log[i] \in E}
Before(A, B) == \A i \in A, j \in B : i < j

\* get_pred_keypoints_dict has returned
PredBuilt == pc \in {"img_samples", "img_dataset", "vid_dataset", "vid_frames",
                     "vid_add", "done"}

\* the display names the plotter resolves
DeclaredNames == IF mode = "video" THEN VideoModelNames(cfg).names ELSE cfg.names

Distinct(q) == \A i, j \in DOMAIN q : i # j => q[i] # q[j]

\* the frame/image count the other tables are held against
AuthoritativeCount ==
    IF mode = "image" THEN ground_truth_df.nrows ELSE model_preds_dict[1].val.nrows

\* C2: no frame of any model is built unless every model's table has the
\* authoritative row count (the build fails with RowCountMismatch first).
C2_RowCountChecked ==
    pred_keypoints_dict # <<>> =>
        \A i \in DOMAIN model_preds_dict :
            model_preds_dict[i].val.nrows = AuthoritativeCount

\* C3 as stated: for every list of N declared names, two alike included,
\* the prediction keypoints are keyed by the N names in declaration order.
C3_Original ==
    (PredBuilt /\ Len(DeclaredNames) = cfg.n) =>
        DictKeys(pred_keypoints_dict) = DeclaredNames

\* C3: given N declared models with tables of F rows each and N pairwise
\* distinct display names, the prediction keypoints hold exactly N entries,
\* keyed by the names in declaration order, the i-th built from the i-th
\* declared source, with one keypoint set per row 0..F-1 read from that row.
C3_KeysInDeclarationOrder ==
    ( /\ PredBuilt
      /\ Len(DeclaredNames) = cfg.n
      /\ Distinct(DeclaredNames)
      /\ \A i, j \in DOMAIN model_preds_dict :
            model_preds_dict[i].val.nrows = model_preds_dict[j].val.nrows ) =>
        /\ DictKeys(pred_keypoints_dict) = DeclaredNames
        /\ Len(pred_keypoints_dict) = cfg.n
        /\ \A i \in DOMAIN pred_keypoints_dict :
              LET df == model_preds_dict[i].val
                  ks == pred_keypoints_dict[i].val
              IN  /\ df.src = i
                  /\ Len(ks) = df.nrows
                  /\ \A r \in DOMAIN ks :
                        /\ [j \in DOMAIN ks[r] |-> ks[r][j].label] = keypoints_to_plot
                        /\ \A j \in DOMAIN ks[r] :
                              IsQuotient(ks[r][j].points[1][1],
                                         df.data[<<ks[r][j].label, "x">>][r],
                                         BuildDims[1])

\* two models with distinct names and as many rows, keypoints built
C3_Witness ==
    /\ PredBuilt /\ cfg.n = 2 /\ Len(pred_keypoints_dict) = 2
    /\ Distinct(DeclaredNames)
    /\ Len(pred_keypoints_dict[1].val) = Len(pred_keypoints_dict[2].val)
    /\ Len(pred_keypoints_dict[1].val) >= 2

KeypointWork == {"keypoints:gt", "keypoints:pred"}

FileChecks == {"isfile:pred", "isfile:video"}
TableLoads == {"read_csv:gt", "read_csv:pred"}

\* C5 as stated: no table load of any kind precedes the existence checks.
C5_Original == Before(PositionsIn(FileChecks), PositionsIn(TableLoads))

\* C5: constructing the video plotter loads the ground-truth table, then
\* checks that every declared prediction file and the video exist and fails
\* with MissingFile otherwise; the checks happen at construction, before any
\* prediction table is loaded, and none is loaded once a check has failed.
C5_ChecksAtConstruction ==
    mode = "video" =>
        /\ Before(PositionsIn(FileChecks), Positions("read_csv:pred"))
        /\ Before(Positions("read_csv:gt"), PositionsIn(FileChecks))
        /\ pc \notin {"new", "check_inputs", "failed"} =>
              /\ Cardinality(Positions("isfile:pred")) = cfg.n
              /\ Cardinality(Positions("isfile:video")) = 1
        /\ err = "MissingFile" =>
              /\ pc = "failed"
              /\ log[Len(log)] \in FileChecks
              /\ Positions("read_csv:pred") = {}
              /\ model_preds_dict = <<>> /\ datasets = <<>> /\ ~result.returned

\* the prediction files are there and the video is not
C5_Witness ==
    /\ mode = "video" /\ err = "MissingFile" /\ cfg.n = 2
    /\ log = <<"read_csv:gt", "isfile:pred", "isfile:pred", "isfile:video">>

\* load_model_predictions of the video plotter has returned
VidLoaded ==
    /\ mode = "video"
    /\ \/ pc \in {"pred_keypoints", "vid_dataset", "vid_frames", "vid_add", "done"}
       \/ pc = "failed" /\ err = "IndexError"

\* C6: in video mode with N prediction files the resolved names are the
\* configured ones when given and N in number, "model_0" .. "model_<N-1>" in
\* file order when none are configured, and explicit names of another count
\* fail with ModelNameCountMismatch: no prediction table is loaded and no
\* dataset is built.
C6_ModelNames ==
    mode = "video" =>
        /\ (cfg.names_given /\ Len(cfg.names) # cfg.n) =>
              /\ ~VidLoaded
              /\ pc \in {"new", "check_inputs", "ready", "failed"}
              /\ pc = "failed" =>
                    err \in {"FileNotFoundError", "MissingFile", "ModelNameCountMismatch"}
              /\ Positions("read_csv:pred") = {}
              /\ model_preds_dict = <<>> /\ datasets = <<>> /\ ~result.returned
        /\ err = "ModelNameCountMismatch" =>
              cfg.names_given /\ Len(cfg.names) # cfg.n
        /\ (VidLoaded /\ cfg.names_given) =>
              /\ Len(cfg.names) = cfg.n
              /\ SeqToSet(DictKeys(model_preds_dict)) = SeqToSet(cfg.names)
              /\ Distinct(cfg.names) => DictKeys(model_preds_dict) = cfg.names
        /\ (VidLoaded /\ ~cfg.names_given) =>
              /\ Len(model_preds_dict) = cfg.n
              /\ \A i \in DOMAIN model_preds_dict :
                    /\ model_preds_dict[i].key = SynthNames[i]
                    /\ model_preds_dict[i].val.src = i
              /\ cfg.n >= 2 => DictKeys(model_preds_dict)[2] = "model_1"

\* two names against three files
C6_Witness ==
    /\ mode = "video" /\ err = "ModelNameCountMismatch"
    /\ Len(cfg.names) = 2 /\ cfg.n = 3

\* C9: a build that fails returns no Dataset and leaves none behind under
\* the dataset name (stated here for builds with at least one model).
C9_FailFast ==
    (pc = "failed" /\ cfg.n > 0) => (datasets = <<>> /\ ~result.returned)

----------------------------------------------------------------------------
(* Claims on the returned datasets (Spec) *)

\* ks is the keypoint set of row r (1-based) of table df
IsKeypointSetOf(ks, df, r) ==
    LET req == SelectSeq(keypoints_to_plot, LAMBDA n : n # ROW_LABEL)
    IN  /\ Len(ks) = Len(req)
        /\ \A j \in DOMAIN ks :
              /\ ks[j].label = req[j]
              /\ IsQuotient(ks[j].points[1][1], df.data[<<req[j], "x">>][r], BuildDims[1])
              /\ IsQuotient(ks[j].points[1][2], df.data[<<req[j], "y">>][r], BuildDims[2])
              /\ ks[j].confidence =
                     IF <<req[j], "likelihood">> \in DOMAIN df.data
                     THEN df.data[<<req[j], "likelihood">>][r]
                     ELSE <<1, 1>>

\* the display names of the N declared models
ModelNamesOfBuild == SubSeq(DeclaredNames, 1, cfg.n)

\* fields holds, for every declared model, the field "<name>_preds" with the
\* keypoint set of row r of that model's table, and no other "_preds" field
OneFieldPerModel(fields, r) ==
    /\ Cardinality({i \in DOMAIN fields : fields[i].key[2] = "_preds"}) = cfg.n
    /\ \A k \in 1..cfg.n :
          \E e \in DOMAIN model_preds_dict, i \in DOMAIN fields :
             /\ model_preds_dict[e].val.src = k
             /\ fields[i].key = <<ModelNamesOfBuild[k], "_preds">>
             /\ IsKeypointSetOf(fields[i].val, model_preds_dict[e].val, r)

TagValues == {"train", "test", "validation", "unused"}

\* the Dataset of a finished image-mode build, sample by sample
ImageDatasetAsClaimed ==
    LET F == ground_truth_df.nrows
        ss == result.samples
    IN  /\ result.returned /\ result.name = DATASET_NAME
        /\ Len(ss) = F
        /\ \A i \in 1..F :
              /\ ss[i].filepath = <<"data_dir", ground_truth_df.data[<<ROW_LABEL, "coords">>][i]>>
              /\ Len(ss[i].tags) = 1
              /\ ss[i].tags[1] \in TagValues
              /\ \E e \in DOMAIN model_preds_dict :
                    /\ model_preds_dict[e].val.src = 1
                    /\ ss[i].tags[1] = Substituted(model_preds_dict[e].val.tags)[i]
              /\ Cardinality({j \in DOMAIN ss[i].fields : ss[i].fields[j].key = GT_FIELD}) = 1
              /\ \A j \in DOMAIN ss[i].fields :
                    ss[i].fields[j].key = GT_FIELD =>
                        IsKeypointSetOf(ss[i].fields[j].val, ground_truth_df, i)
              /\ Len(ss[i].fields) = cfg.n + 1
              /\ OneFieldPerModel(ss[i].fields, i)

VideoDatasetAsClaimed ==
    LET ss == result.samples
    IN  /\ result.returned /\ result.name = VIDEO_DATASET_NAME
        /\ Len(ss) = 1
        /\ ss[1].filepath = VIDEO
        /\ ss[1].fields = <<>>
        /\ \E e \in DOMAIN model_preds_dict :
              /\ model_preds_dict[e].val.src = 1
              /\ DOMAIN ss[1].frames = 1..model_preds_dict[e].val.nrows
        /\ \A k \in DOMAIN ss[1].frames :
              /\ Len(ss[1].frames[k]) = cfg.n
              /\ \A j \in DOMAIN ss[1].frames[k] : ss[1].frames[k][j].key # GT_FIELD
              /\ OneFieldPerModel(ss[1].frames[k], k)

\* C12 as stated: every successful video-mode build returns one Sample for
\* the video with frames 1..F, F the first declared model's row count, frame
\* k holding one "<model_name>_preds" field per declared model read from row
\* k-1, and no ground-truth field anywhere.
C12_Original ==
    (pc = "done" /\ mode = "video") => VideoDatasetAsClaimed

\* C12: the same, for builds whose declared models have pairwise distinct
\* display names.
C12_VideoDataset ==
    (pc = "done" /\ mode = "video" /\ Distinct(ModelNamesOfBuild)) =>
        VideoDatasetAsClaimed

\* two models, the second with more rows than the first
C12_Witness ==
    /\ pc = "done" /\ mode = "video" /\ cfg.n = 2 /\ Distinct(ModelNamesOfBuild)
    /\ Len(result.samples[1].frames) = 2
    /\ model_preds_dict[2].val.nrows = 3
    /\ Len(result.samples[1].frames[2]) = 2

====
